---- MODULE Spec2Model ----
(***************************************************************************)
(* Model of the moderated anonymous-posting bot (src/main.py) and of its   *)
(* store (src/database.py).                                                *)
(*                                                                         *)
(* Every handler runs as its own task (Dispatcher.start_polling handles    *)
(* updates as tasks), so handlers interleave at their awaits on the chat   *)
(* backend.  One action of the model is one uninterrupted run of a handler *)
(* between two awaits: it takes the result of the call the handler was     *)
(* awaiting (with that call's effect on the chat backend) and runs the     *)
(* handler's synchronous code up to its next await or its end.  Calls on   *)
(* the store (sqlite3) and on the FSM MemoryStorage never suspend.         *)
(*                                                                         *)
(* A callback.answer / message.answer that only reports the handler's      *)
(* outcome to the acting user is recorded as the outcome of the step.      *)
(***************************************************************************)
EXTENDS Integers, Sequences, FiniteSets, Bags, TLC

VARIABLES
    users,      \* table users: the user ids that have a row
    posts,      \* table posts: post_id -> row
    post_seq,   \* AUTOINCREMENT counter of table posts
    comments,   \* table comments, in comment_id order
    session,    \* FSM MemoryStorage: user id -> state and data
    tasks,      \* handler invocations suspended on an await (a bag)
    modgroup,   \* messages the bot sent to the moderator group
    channel,    \* messages the bot published to the channel (post ids)
    inbox,      \* post id -> the kinds of outcome notification its author got
    ev          \* the handler step taken last: what ran and how it ended

vars == <<users, posts, post_seq, comments, session, tasks, modgroup,
          channel, inbox, ev>>

----------------------------------------------------------------------------
(* Bounds of the model *)

NUsers == 2
MaxPosts == 1
MaxComments == 1
MaxTasks == 2
MaxDialogues == 1
MaxChannel == 2
MaxStorePosts == 4
MaxStoreComments == 3
MaxSubmissions == 2
(* Post ids a comment deep link may carry (any integer parses). *)
MaxTargets == 2

(* Python's None for an Optional[int] (post_id, channel_message_id): row   *)
(* ids and message ids start at 1.                                         *)
NoId == 0

(* Python's None for an Optional[str] (image_file_id, FSM state).          *)
NULL == "None"

Users == 1..NUsers

(* Configuration: the administrator id list. *)
ADMINS_ID == {1}

PostIds == 1..MaxPosts
(* /start comment_post_<id>: the ids carried by comment deep links. *)
Targets == 1..MaxTargets

(* Telegram's ChatMember.status values. *)
MemberStatuses ==
    {"creator", "administrator", "member", "restricted", "left", "kicked"}

(* Result of bot.get_chat_member: a status, or the call raising. *)
QueryResults == MemberStatuses \cup {"error"}

(* FSM states: PostForm and CommentForm; None is the idle session. *)
waiting_for_image == "PostForm:waiting_for_image"
waiting_for_text == "PostForm:waiting_for_text"
waiting_for_comment == "CommentForm:waiting_for_comment"

(* Message texts a user sends.  Plain text (one of them whitespace only), *)
(* commands, and /start with a deep-link parameter for a post id.         *)
(* An input is <<text or callback data, post id>>.                        *)
PlainTexts == {"hello", " "}
Commands == {"/cancel", "/stats"}
StartLinks == {"/start", "/start view_post_", "/start comment_post_"}

----------------------------------------------------------------------------
(* Store: src/database.py.  db_ok = FALSE is the statement raising: every  *)
(* method logs the exception and returns its default.                      *)

NoPost ==
    [post_id |-> NoId, user_id |-> 0, text |-> "", image_file_id |-> NULL,
     status |-> "", channel_message_id |-> NoId]

(* add_user: upsert of the users row. *)
add_user(tbl, user_id, db_ok) == IF db_ok THEN tbl \cup {user_id} ELSE tbl

(* add_post: the new row, status 'pending' by the column default. *)
add_post(tbl, post_id, user_id, text, image_file_id) ==
    [q \in DOMAIN tbl \cup {post_id} |->
        IF q = post_id
        THEN [post_id |-> post_id, user_id |-> user_id, text |-> text,
              image_file_id |-> image_file_id, status |-> "pending",
              channel_message_id |-> NoId]
        ELSE tbl[q]]

(* get_post: the row as a dict; None when no row matches or when the query *)
(* raises.                                                                 *)
get_post(post_id, db_ok) ==
    IF db_ok /\ post_id \in DOMAIN posts THEN posts[post_id] ELSE NoPost

(* update_post_status: channel_message_id is written only when truthy; a   *)
(* storage error leaves the table unchanged and returns False.  UPDATE of  *)
(* a missing row changes nothing.                                          *)
update_post_status(tbl, post_id, status, channel_message_id, db_ok) ==
    IF db_ok /\ post_id \in DOMAIN tbl
    THEN IF channel_message_id # NoId
         THEN [tbl EXCEPT ![post_id].status = status,
                          ![post_id].channel_message_id = channel_message_id]
         ELSE [tbl EXCEPT ![post_id].status = status]
    ELSE tbl

(* Whether update_post_status changed a row. *)
row_written(post_id, db_ok) == db_ok /\ post_id \in DOMAIN posts

(* CURRENT_TIMESTAMP, the column default of created_at, in whole seconds:  *)
(* the second in which the newest row was created, or a later one.         *)
CURRENT_TIMESTAMP(tbl) ==
    IF tbl = <<>> THEN {1}
    ELSE {tbl[Len(tbl)].created_at, tbl[Len(tbl)].created_at + 1}

(* The second in which the newest row was created. *)
SameSecond(tbl) == IF tbl = <<>> THEN 1 ELSE tbl[Len(tbl)].created_at

(* add_comment: post_id is NOT NULL; foreign keys are not enforced (no     *)
(* PRAGMA foreign_keys), so any post id is accepted.  created_at is what   *)
(* CURRENT_TIMESTAMP gave.                                                 *)
add_comment(tbl, post_id, user_id, text, created_at, db_ok) ==
    IF db_ok /\ post_id # NoId
    THEN Append(tbl, [post_id |-> post_id, user_id |-> user_id, text |-> text,
                      created_at |-> created_at])
    ELSE tbl

(* The rows of a post, in comment_id order. *)
rows_of(tbl, post_id) == SelectSeq(tbl, LAMBDA c : c.post_id = post_id)

(* ORDER BY created_at ASC: the orders of rows in which created_at never   *)
(* decreases.  SQL leaves the order of rows with equal created_at open.    *)
order_by_created_at(rows) ==
    LET n == Len(rows)
        Orders == {f \in [1..n -> 1..n] :
                     /\ \A i, j \in 1..n : i # j => f[i] # f[j]
                     /\ \A i, j \in 1..n :
                           i < j => rows[f[i]].created_at <= rows[f[j]].created_at}
    IN {[i \in 1..n |-> rows[f[i]]] : f \in Orders}

(* get_comments: the lists the SELECT can return: the rows of a post       *)
(* ordered by created_at; the empty list when the query raises.            *)
get_comments(post_id, db_ok) ==
    IF db_ok THEN order_by_created_at(rows_of(comments, post_id)) ELSE {<<>>}

(* get_comment_count: the number of rows of a post; 0 when the query       *)
(* raises.                                                                 *)
get_comment_count(post_id, db_ok) ==
    IF db_ok THEN Len(SelectSeq(comments, LAMBDA c : c.post_id = post_id)) ELSE 0

(* The comments table without the rows of a post: DELETE FROM comments    *)
(* WHERE post_id = ?, as its cascade-forgetting variant leaves it.         *)
delete_comments_kept(tbl, post_id) == tbl

(* DELETE FROM comments WHERE post_id = ? *)
delete_comments(tbl, post_id) == SelectSeq(tbl, LAMBDA c : c.post_id # post_id)

(* DELETE FROM posts WHERE post_id = ? *)
delete_row(tbl, post_id) == [q \in DOMAIN tbl \ {post_id} |-> tbl[q]]

(* cleanup_old_rejected_posts: DELETE FROM posts WHERE status = 'rejected' *)
(* AND created_at < the cutoff.  Posts are created in post_id order, so    *)
(* the posts created before a cutoff are those up to some post id.  The    *)
(* comments table is not touched.                                          *)
cleanup_old_rejected_posts(tbl, cutoff) ==
    [q \in {p \in DOMAIN tbl : ~(tbl[p].status = "rejected" /\ p <= cutoff)}
        |-> tbl[q]]

(* A connection whose statements are committed one by one: nothing is     *)
(* left to roll back.                                                      *)
rollback_statement_committed(before, now) == now

(* get_connection: conn.rollback() in the except branch returns the table  *)
(* to what it was when the connection was opened; a process that dies      *)
(* before conn.commit() leaves the same.                                   *)
rollback(before, now) == before

(* SQL NULL as the value of an aggregate. *)
SqlNull == -1

(* x or 0 *)
or_zero(x) == IF x = SqlNull \/ x = 0 THEN 0 ELSE x

(* SUM(CASE WHEN status = ? THEN 1 ELSE 0 END) over the rows; NULL when    *)
(* there is no row.                                                        *)
RECURSIVE SumCase(_, _, _)
SumCase(tbl, rows, status) ==
    IF rows = {} THEN 0
    ELSE LET p == CHOOSE x \in rows : TRUE
         IN (IF tbl[p].status = status THEN 1 ELSE 0)
            + SumCase(tbl, rows \ {p}, status)

sum_case(tbl, rows, status) ==
    IF rows = {} THEN SqlNull ELSE SumCase(tbl, rows, status)

ZeroStats ==
    [total_posts |-> 0, approved_posts |-> 0, rejected_posts |-> 0,
     pending_posts |-> 0, total_comments |-> 0]

(* The statistics counting the posts of every user. *)
get_user_stats_all_users(user_id, db_ok) ==
    IF db_ok
    THEN [total_posts |-> Cardinality(DOMAIN posts),
          approved_posts |-> or_zero(sum_case(posts, DOMAIN posts, "approved")),
          rejected_posts |-> or_zero(sum_case(posts, DOMAIN posts, "rejected")),
          pending_posts |-> or_zero(sum_case(posts, DOMAIN posts, "pending")),
          total_comments |-> Len(comments)]
    ELSE ZeroStats

(* get_user_stats: the two SELECTs WHERE user_id = ?, each value `or 0`;   *)
(* all zeros when a query raises.                                          *)
get_user_stats(user_id, db_ok) ==
    IF db_ok
    THEN LET rows == {p \in DOMAIN posts : posts[p].user_id = user_id}
         IN [total_posts |-> or_zero(Cardinality(rows)),
             approved_posts |-> or_zero(sum_case(posts, rows, "approved")),
             rejected_posts |-> or_zero(sum_case(posts, rows, "rejected")),
             pending_posts |-> or_zero(sum_case(posts, rows, "pending")),
             total_comments |->
                or_zero(Len(SelectSeq(comments, LAMBDA c : c.user_id = user_id)))]
    ELSE ZeroStats

----------------------------------------------------------------------------
(* FSM MemoryStorage: FSMContext.set_state, update_data, clear *)

IdleSession == [state |-> NULL, image_file_id |-> NULL, post_id |-> NoId]

set_state(s, user_id, state) == [s EXCEPT ![user_id].state = state]

update_image(s, user_id, image_file_id) ==
    [s EXCEPT ![user_id].image_file_id = image_file_id]

(* update_data that drops the target post id. *)
update_post_id_unrecorded(s, user_id, post_id) == s

update_post_id(s, user_id, post_id) == [s EXCEPT ![user_id].post_id = post_id]

(* A storage keyed by nothing: clear() empties every user's record. *)
clear_every_user(s, user_id) == [u \in DOMAIN s |-> IdleSession]

clear(s, user_id) == [s EXCEPT ![user_id] = IdleSession]

----------------------------------------------------------------------------
(* Membership gate: src/main.py check_channel_membership *)

(* The check without its except branch: a failed query lets the user in. *)
check_channel_membership_fail_open(q) ==
    q = "error" \/ q \in {"member", "administrator", "creator"}

(* q is what bot.get_chat_member gave: a status, or "error" when it raised *)
check_channel_membership(q) ==
    IF q = "error" THEN FALSE
    ELSE q \in {"member", "administrator", "creator"}

Gate(q) == IF check_channel_membership(q) THEN "passed" ELSE "denied"

----------------------------------------------------------------------------
(* Tasks: handlers suspended on an await *)

NewTask(h, pc, u, p, inp) ==
    [h |-> h, pc |-> pc, u |-> u, p |-> p, inp |-> inp, k |-> 0,
     gate |-> "unchecked", wrote |-> FALSE, img |-> NULL]

(* A new handler invocation may suspend: at most MaxTasks are in flight. *)
CanSuspend == BagCardinality(tasks) < MaxTasks

(* A new handler invocation suspends at its first await with locals rec. *)
Spawn(rec) == CanSuspend /\ tasks' = tasks (+) SetToBag({rec})

(* The suspended handler r resumes and suspends again as rec. *)
Suspend(r, rec) == tasks' = (tasks (-) SetToBag({r})) (+) SetToBag({rec})

(* The suspended handler r resumes and ends. *)
End(r) == tasks' = tasks (-) SetToBag({r})

Suspended == BagToSet(tasks)

At(r, h, pc) == r.h = h /\ r.pc = pc

(* What ev records: the handler, the await it resumed from ("start" for    *)
(* the dispatch), the acting user, the post and the input, how the step    *)
(* ended ("suspended" at an await), whether this invocation has written a  *)
(* post status, the gate's answer in this invocation, and the result of    *)
(* the membership query this step received.                                *)
Step(h, pc, u, p, inp, out, wrote, gate, q) ==
    [h |-> h, pc |-> pc, u |-> u, p |-> p, inp |-> inp, out |-> out,
     wrote |-> wrote, gate |-> gate, q |-> q]

NoStep ==
    Step("none", "none", 0, NoId, <<"", NoId>>, "none", FALSE, "unchecked", "none")

(* An invocation that ends or suspends in its dispatch step. *)
Started(h, u, p, inp, out) ==
    ev' = Step(h, "start", u, p, inp, out, FALSE, "unchecked", "none")

(* The step of suspended handler r (or of r as it continues, with its      *)
(* locals updated) ending as out.                                          *)
Resumed(r, pc, out) ==
    ev' = Step(r.h, pc, r.u, r.p, r.inp, out, r.wrote, r.gate, "none")

Queried(r, pc, out, q) ==
    ev' = Step(r.h, pc, r.u, r.p, r.inp, out, r.wrote, Gate(q), q)

----------------------------------------------------------------------------
(* Moderation workflow: src/main.py approve_post_handler, reject_post_handler *)

(* The permission check taking any known user for an administrator. *)
is_admin_any_user(moderator_id) == moderator_id \in Users

(* moderator_id not in ADMINS_ID *)
is_admin(moderator_id) == moderator_id \in ADMINS_ID

(* No status check. *)
not_pending_unchecked(post) == FALSE

(* The status check refusing approved posts only. *)
not_pending_approved_only(post) == post.status = "approved"

(* The status check refusing rejected posts only. *)
not_pending_rejected_only(post) == post.status = "rejected"

(* post['status'] != 'pending' *)
not_pending(post) == post.status # "pending"

(* callback.message.text of a moderation message: None for a photo         *)
(* message, whose text is its caption.                                     *)
message_text_is_none(k) == modgroup[k].kind = "photo"

(* The author of post_id receives a notification of this kind, unless the *)
(* send raises.                                                           *)
Notify(ok, kind, post_id) ==
    IF ok
    THEN inbox' = [inbox EXCEPT ![post_id] = @ \cup {kind}]
    ELSE UNCHANGED inbox

(* The moderation checks of both handlers: "" when they pass. *)
ModerationCheck(m, p, post) ==
    IF p = NoId THEN "raised"              \* int("None") raises ValueError
    ELSE IF ~is_admin(m) THEN "no_permission"
    ELSE IF post = NoPost THEN "not_found"
    ELSE IF not_pending(post) THEN "already_processed"
    ELSE ""

(* approve_post_handler up to its first await, bot.get_me().  k is the     *)
(* moderation message whose button was pressed.                            *)
approve_post_handler(m, k) ==
    \E db_ok \in BOOLEAN :
       LET p == modgroup[k].post_id
           inp == <<"approve_", p>>
           failed == ModerationCheck(m, p, get_post(p, db_ok))
       IN /\ IF failed # ""
             THEN /\ Started("approve", m, p, inp, failed)
                  /\ UNCHANGED tasks
             ELSE /\ Spawn([NewTask("approve", "get_me", m, p, inp)
                               EXCEPT !.k = k])
                  /\ Started("approve", m, p, inp, "suspended")
          /\ UNCHANGED <<users, posts, post_seq, comments, session, modgroup,
                         channel, inbox>>

(* bot.get_me() returns or raises; on success the handler calls send_photo *)
(* or send_message on the channel.                                         *)
approve_get_me(r) ==
    /\ At(r, "approve", "get_me")
    /\ \E ok \in BOOLEAN :
          IF ok
          THEN /\ Suspend(r, [r EXCEPT !.pc = "publish"])
               /\ Resumed(r, "get_me", "suspended")
          ELSE /\ End(r)
               /\ Resumed(r, "get_me", "publish_error")
    /\ UNCHANGED <<users, posts, post_seq, comments, session, modgroup,
                   channel, inbox>>

(* The channel send returns the published message or raises; on success    *)
(* the status is written and the author notification is sent.              *)
approve_publish(r) ==
    /\ At(r, "approve", "publish")
    /\ \E ok \in BOOLEAN, db_ok \in BOOLEAN :
          IF ok
          THEN LET r2 == [r EXCEPT !.pc = "notify",
                                   !.wrote = row_written(r.p, db_ok)]
               IN /\ Len(channel) < MaxChannel
                  /\ channel' = Append(channel, r.p)
                  /\ posts' = update_post_status(posts, r.p, "approved",
                                                 Len(channel) + 1, db_ok)
                  /\ Suspend(r, r2)
                  /\ Resumed(r2, "publish", "suspended")
          ELSE /\ End(r)
               /\ Resumed(r, "publish", "publish_error")
               /\ UNCHANGED <<channel, posts>>
    /\ UNCHANGED <<users, post_seq, comments, session, modgroup, inbox>>

(* The notification returns or raises (logged); then the moderation        *)
(* message is edited: callback.message.text + "..." is evaluated first and *)
(* its TypeError is caught by the outer except.                            *)
approve_notify(r) ==
    /\ At(r, "approve", "notify")
    /\ \E ok \in BOOLEAN : Notify(ok, "approved", r.p)
    /\ IF message_text_is_none(r.k)
       THEN /\ End(r)
            /\ Resumed(r, "notify", "publish_error")
       ELSE /\ Suspend(r, [r EXCEPT !.pc = "edit"])
            /\ Resumed(r, "notify", "suspended")
    /\ UNCHANGED <<users, posts, post_seq, comments, session, modgroup,
                   channel>>

(* edit_text returns or raises (caught by the outer except). *)
approve_edit(r) ==
    /\ At(r, "approve", "edit")
    /\ \E ok \in BOOLEAN :
          IF ok
          THEN /\ modgroup' = [modgroup EXCEPT ![r.k].edited = TRUE]
               /\ Resumed(r, "edit", "approved")
          ELSE /\ UNCHANGED modgroup
               /\ Resumed(r, "edit", "publish_error")
    /\ End(r)
    /\ UNCHANGED <<users, posts, post_seq, comments, session, channel,
                   inbox>>

(* reject_post_handler up to its first await: the status is checked and    *)
(* written without an await in between; then the author is notified.       *)
reject_post_handler(m, k) ==
    \E db_ok \in BOOLEAN, wr_ok \in BOOLEAN :
       LET p == modgroup[k].post_id
           inp == <<"reject_", p>>
           failed == ModerationCheck(m, p, get_post(p, db_ok))
           r == [NewTask("reject", "notify", m, p, inp)
                    EXCEPT !.k = k, !.wrote = row_written(p, wr_ok)]
       IN /\ IF failed # ""
             THEN /\ Started("reject", m, p, inp, failed)
                  /\ UNCHANGED <<tasks, posts>>
             ELSE /\ posts' = update_post_status(posts, p, "rejected", NoId, wr_ok)
                  /\ Spawn(r)
                  /\ Resumed(r, "start", "suspended")
          /\ UNCHANGED <<users, post_seq, comments, session, modgroup,
                         channel, inbox>>

(* The notification returns or raises (logged); then the moderation        *)
(* message is edited, outside any try: a TypeError leaves the handler.     *)
reject_notify(r) ==
    /\ At(r, "reject", "notify")
    /\ \E ok \in BOOLEAN : Notify(ok, "rejected", r.p)
    /\ IF message_text_is_none(r.k)
       THEN /\ End(r)
            /\ Resumed(r, "notify", "raised")
       ELSE /\ Suspend(r, [r EXCEPT !.pc = "edit"])
            /\ Resumed(r, "notify", "suspended")
    /\ UNCHANGED <<users, posts, post_seq, comments, session, modgroup,
                   channel>>

(* edit_text returns, or raises out of the handler. *)
reject_edit(r) ==
    /\ At(r, "reject", "edit")
    /\ \E ok \in BOOLEAN :
          IF ok
          THEN /\ modgroup' = [modgroup EXCEPT ![r.k].edited = TRUE]
               /\ Resumed(r, "edit", "rejected")
          ELSE /\ UNCHANGED modgroup
               /\ Resumed(r, "edit", "raised")
    /\ End(r)
    /\ UNCHANGED <<users, posts, post_seq, comments, session, channel,
                   inbox>>

----------------------------------------------------------------------------
(* Dialogue: src/main.py.  Message handlers are tried in the order they    *)
(* are registered (start_handler, receive_image_handler,                   *)
(* receive_text_handler, receive_comment_handler, admin_stats_handler);    *)
(* the first whose filters match handles the message.                      *)

(* The moderation message receive_text_handler sends for a post. *)
ModMessage(post_id, image_file_id) ==
    [post_id |-> post_id,
     kind |-> IF image_file_id # NULL THEN "photo" ELSE "text",
     edited |-> FALSE]

(* Posts created so far, and moderation messages of posts that were not. *)
Submissions ==
    post_seq + Cardinality({k \in DOMAIN modgroup : modgroup[k].post_id = NoId})

(* The check taking every text for a command. *)
is_command_every_text(text) == TRUE

(* message.text == "/cancel" or message.text.startswith("/") *)
is_command(text) == text \in Commands

(* /start, with or without a deep-link parameter, in any FSM state. *)
start_handler(u, link, p) ==
    /\ link \in StartLinks
    /\ (link = "/start") = (p = NoId)
    /\ \E db_ok \in BOOLEAN : users' = add_user(users, u, db_ok)
    /\ IF link = "/start comment_post_"
       THEN /\ session' = update_post_id(
                             set_state(session, u, waiting_for_comment), u, p)
            /\ Started("start", u, p, <<link, p>>, "prompted")
            /\ UNCHANGED tasks
       ELSE \* view_post_from_link, or the welcome: check_channel_membership
            /\ Spawn(NewTask("start", "gate", u, p, <<link, p>>))
            /\ Started("start", u, p, <<link, p>>, "suspended")
            /\ UNCHANGED session
    /\ UNCHANGED <<posts, post_seq, comments, modgroup, channel, inbox>>

(* get_chat_member returns: view_post_from_link shows the comments of an   *)
(* existing post to a member (get_comments, message.answer); the welcome   *)
(* sends the menu or an invite.                                            *)
start_gate(r) ==
    /\ At(r, "start", "gate")
    /\ \E q \in QueryResults, db_ok \in BOOLEAN :
          LET r2 == [r EXCEPT !.gate = Gate(q)]
          IN IF r.inp[1] = "/start"
             THEN Queried(r2, "gate", IF check_channel_membership(q)
                                      THEN "menu" ELSE "invite", q)
             ELSE IF ~check_channel_membership(q)
             THEN Queried(r2, "gate", "not_member", q)
             ELSE IF get_post(r.p, db_ok) = NoPost
             THEN Queried(r2, "gate", "not_found", q)
             ELSE \* the comments of the post are sent to the user
                  Queried(r2, "gate", "shown", q)
    /\ End(r)
    /\ UNCHANGED <<users, posts, post_seq, comments, session, modgroup,
                   channel, inbox>>

(* Callback create_post, up to check_channel_membership. *)
create_post_handler(u) ==
    /\ Spawn(NewTask("create_post", "gate", u, NoId, <<"create_post", NoId>>))
    /\ Started("create_post", u, NoId, <<"create_post", NoId>>, "suspended")
    /\ UNCHANGED <<users, posts, post_seq, comments, session, modgroup,
                   channel, inbox>>

(* A member is prompted for the image: edit_text is awaited. *)
create_post_gate(r) ==
    /\ At(r, "create_post", "gate")
    /\ \E q \in QueryResults :
          LET r2 == [r EXCEPT !.gate = Gate(q), !.pc = "prompt"]
          IN IF check_channel_membership(q)
             THEN /\ Suspend(r, r2)
                  /\ Queried(r2, "gate", "suspended", q)
             ELSE /\ End(r)
                  /\ Queried(r2, "gate", "not_member", q)
    /\ UNCHANGED <<users, posts, post_seq, comments, session, modgroup,
                   channel, inbox>>

(* edit_text returns (the state is set) or raises out of the handler. *)
create_post_prompt(r) ==
    /\ At(r, "create_post", "prompt")
    /\ \E ok \in BOOLEAN :
          IF ok
          THEN /\ session' = set_state(session, r.u, waiting_for_image)
               /\ Resumed(r, "prompt", "prompted")
          ELSE /\ UNCHANGED session
               /\ Resumed(r, "prompt", "raised")
    /\ End(r)
    /\ UNCHANGED <<users, posts, post_seq, comments, modgroup, channel,
                   inbox>>

(* Callback skip_image, in any FSM state: the image is cleared, then       *)
(* edit_text is awaited.                                                   *)
skip_image_handler(u) ==
    /\ session' = update_image(session, u, NULL)
    /\ Spawn(NewTask("skip_image", "prompt", u, NoId, <<"skip_image", NoId>>))
    /\ Started("skip_image", u, NoId, <<"skip_image", NoId>>, "suspended")
    /\ UNCHANGED <<users, posts, post_seq, comments, modgroup, channel,
                   inbox>>

skip_image_prompt(r) ==
    /\ At(r, "skip_image", "prompt")
    /\ \E ok \in BOOLEAN :
          IF ok
          THEN /\ session' = set_state(session, r.u, waiting_for_text)
               /\ Resumed(r, "prompt", "prompted")
          ELSE /\ UNCHANGED session
               /\ Resumed(r, "prompt", "raised")
    /\ End(r)
    /\ UNCHANGED <<users, posts, post_seq, comments, modgroup, channel,
                   inbox>>

(* A photo while waiting_for_image: the file id is stored, then            *)
(* message.answer is awaited.                                              *)
receive_image_handler(u) ==
    /\ session[u].state = waiting_for_image
    /\ session' = update_image(session, u, "img")
    /\ Spawn(NewTask("receive_image", "prompt", u, NoId, <<"photo", NoId>>))
    /\ Started("receive_image", u, NoId, <<"photo", NoId>>, "suspended")
    /\ UNCHANGED <<users, posts, post_seq, comments, modgroup, channel,
                   inbox>>

receive_image_prompt(r) ==
    /\ At(r, "receive_image", "prompt")
    /\ \E ok \in BOOLEAN :
          IF ok
          THEN /\ session' = set_state(session, r.u, waiting_for_text)
               /\ Resumed(r, "prompt", "prompted")
          ELSE /\ UNCHANGED session
               /\ Resumed(r, "prompt", "raised")
    /\ End(r)
    /\ UNCHANGED <<users, posts, post_seq, comments, modgroup, channel,
                   inbox>>

(* A text (not /start) while waiting_for_text: a command returns at once;  *)
(* anything else is stored as a post and sent to the moderator group.      *)
receive_text_handler(u, text) ==
    /\ session[u].state = waiting_for_text
    /\ text \in PlainTexts \cup Commands
    /\ IF is_command(text)
       THEN /\ Started("receive_text", u, NoId, <<text, NoId>>, "ignored")
            /\ UNCHANGED <<posts, post_seq, tasks>>
       ELSE /\ \E db_ok \in BOOLEAN :
                  LET post_id == IF db_ok THEN post_seq + 1 ELSE NoId
                      image_file_id == session[u].image_file_id
                  IN /\ IF db_ok
                        THEN /\ posts' = add_post(posts, post_id, u, text,
                                                  image_file_id)
                             /\ post_seq' = post_id
                        ELSE UNCHANGED <<posts, post_seq>>
                     /\ Spawn([NewTask("receive_text", "moderation", u,
                                       post_id, <<text, NoId>>)
                                  EXCEPT !.img = image_file_id])
                     /\ Started("receive_text", u, post_id, <<text, NoId>>,
                                "suspended")
    /\ UNCHANGED <<users, comments, session, modgroup, channel, inbox>>

(* The send to the moderator group returns (then the user is told the post *)
(* was submitted) or raises (then the user is told of an error).           *)
receive_text_moderation(r) ==
    /\ At(r, "receive_text", "moderation")
    /\ \E ok \in BOOLEAN :
          IF ok
          THEN /\ modgroup' = Append(modgroup, ModMessage(r.p, r.img))
               /\ Suspend(r, [r EXCEPT !.pc = "answer"])
          ELSE /\ UNCHANGED modgroup
               /\ Suspend(r, [r EXCEPT !.pc = "answer_error"])
    /\ Resumed(r, "moderation", "suspended")
    /\ UNCHANGED <<users, posts, post_seq, comments, session, channel,
                   inbox>>

(* The success answer returns (the session is cleared) or raises into the  *)
(* except branch, which answers with the error.                            *)
receive_text_answer(r) ==
    /\ At(r, "receive_text", "answer")
    /\ \E ok \in BOOLEAN :
          IF ok
          THEN /\ session' = clear(session, r.u)
               /\ End(r)
               /\ Resumed(r, "answer", "submitted")
          ELSE /\ UNCHANGED session
               /\ Suspend(r, [r EXCEPT !.pc = "answer_error"])
               /\ Resumed(r, "answer", "suspended")
    /\ UNCHANGED <<users, posts, post_seq, comments, modgroup, channel,
                   inbox>>

(* The except branch sending the post to the moderators once more. *)
receive_text_answer_error_resend(r) ==
    /\ At(r, "receive_text", "answer_error")
    /\ modgroup' = Append(modgroup, ModMessage(r.p, r.img))
    /\ session' = clear(session, r.u)
    /\ Resumed(r, "answer_error", "submit_error")
    /\ End(r)
    /\ UNCHANGED <<users, posts, post_seq, comments, channel, inbox>>

(* The error answer returns (the session is cleared) or raises out of the  *)
(* handler, before state.clear().                                          *)
receive_text_answer_error(r) ==
    /\ At(r, "receive_text", "answer_error")
    /\ \E ok \in BOOLEAN :
          IF ok
          THEN /\ session' = clear(session, r.u)
               /\ Resumed(r, "answer_error", "submit_error")
          ELSE /\ UNCHANGED session
               /\ Resumed(r, "answer_error", "raised")
    /\ End(r)
    /\ UNCHANGED <<users, posts, post_seq, comments, modgroup, channel,
                   inbox>>

(* Callback add_comment_<p>, up to check_channel_membership. *)
add_comment_handler(u, p) ==
    /\ Spawn(NewTask("add_comment", "gate", u, p, <<"add_comment_", p>>))
    /\ Started("add_comment", u, p, <<"add_comment_", p>>, "suspended")
    /\ UNCHANGED <<users, posts, post_seq, comments, session, modgroup,
                   channel, inbox>>

(* A member commenting an existing post is prompted: answer is awaited. *)
add_comment_gate(r) ==
    /\ At(r, "add_comment", "gate")
    /\ \E q \in QueryResults, db_ok \in BOOLEAN :
          LET r2 == [r EXCEPT !.gate = Gate(q), !.pc = "prompt"]
          IN IF ~check_channel_membership(q)
             THEN /\ End(r)
                  /\ Queried(r2, "gate", "not_member", q)
             ELSE IF get_post(r.p, db_ok) = NoPost
             THEN /\ End(r)
                  /\ Queried(r2, "gate", "not_found", q)
             ELSE /\ Suspend(r, r2)
                  /\ Queried(r2, "gate", "suspended", q)
    /\ UNCHANGED <<users, posts, post_seq, comments, session, modgroup,
                   channel, inbox>>

(* answer returns (state and target post are set) or raises. *)
add_comment_prompt(r) ==
    /\ At(r, "add_comment", "prompt")
    /\ \E ok \in BOOLEAN :
          IF ok
          THEN /\ session' = update_post_id(
                      set_state(session, r.u, waiting_for_comment), r.u, r.p)
               /\ Resumed(r, "prompt", "prompted")
          ELSE /\ UNCHANGED session
               /\ Resumed(r, "prompt", "raised")
    /\ End(r)
    /\ UNCHANGED <<users, posts, post_seq, comments, modgroup, channel,
                   inbox>>

(* Callback view_comments_<id>, up to check_channel_membership. *)
view_comments_handler(u, p) ==
    /\ Spawn(NewTask("view_comments", "gate", u, p, <<"view_comments_", p>>))
    /\ Started("view_comments", u, p, <<"view_comments_", p>>, "suspended")
    /\ UNCHANGED <<users, posts, post_seq, comments, session, modgroup,
                   channel, inbox>>

(* get_chat_member returns: the comments of an existing post are sent to   *)
(* a member (get_post, get_comments, message.answer).                      *)
view_comments_gate(r) ==
    /\ At(r, "view_comments", "gate")
    /\ \E q \in QueryResults, db_ok \in BOOLEAN :
          LET r2 == [r EXCEPT !.gate = Gate(q)]
          IN IF ~check_channel_membership(q)
             THEN Queried(r2, "gate", "not_member", q)
             ELSE IF get_post(r.p, db_ok) = NoPost
             THEN Queried(r2, "gate", "not_found", q)
             ELSE Queried(r2, "gate", "shown", q)
    /\ End(r)
    /\ UNCHANGED <<users, posts, post_seq, comments, session, modgroup,
                   channel, inbox>>

(* A text (not /start) while waiting_for_comment: a command returns at     *)
(* once; anything else is stored as a comment on data['post_id'].          *)
receive_comment_handler(u, text) ==
    /\ session[u].state = waiting_for_comment
    /\ text \in PlainTexts \cup Commands
    /\ IF is_command(text)
       THEN /\ Started("receive_comment", u, NoId, <<text, NoId>>, "ignored")
            /\ UNCHANGED <<comments, tasks>>
       ELSE /\ Len(comments) < MaxComments
            /\ \E db_ok \in BOOLEAN, created_at \in CURRENT_TIMESTAMP(comments) :
                  comments' = add_comment(comments, session[u].post_id, u,
                                          text, created_at, db_ok)
            /\ Spawn(NewTask("receive_comment", "answer", u,
                             session[u].post_id, <<text, NoId>>))
            /\ Started("receive_comment", u, session[u].post_id,
                       <<text, NoId>>, "suspended")
    /\ UNCHANGED <<users, posts, post_seq, session, modgroup, channel,
                   inbox>>

(* answer returns (the session is cleared) or raises out of the handler. *)
receive_comment_answer(r) ==
    /\ At(r, "receive_comment", "answer")
    /\ \E ok \in BOOLEAN :
          IF ok
          THEN /\ session' = clear(session, r.u)
               /\ Resumed(r, "answer", "commented")
          ELSE /\ UNCHANGED session
               /\ Resumed(r, "answer", "raised")
    /\ End(r)
    /\ UNCHANGED <<users, posts, post_seq, comments, modgroup, channel,
                   inbox>>

(* Callback cancel, in any FSM state: state.clear() comes first. *)
cancel_handler(u) ==
    /\ session' = clear(session, u)
    /\ Started("cancel", u, NoId, <<"cancel", NoId>>, "cancelled")
    /\ UNCHANGED <<users, posts, post_seq, comments, tasks, modgroup,
                   channel, inbox>>

(* /stats reaches admin_stats_handler when no state handler took the text. *)
admin_stats_handler(u) ==
    /\ session[u].state \notin {waiting_for_text, waiting_for_comment}
    /\ Started("admin_stats", u, NoId, <<"/stats", NoId>>,
               IF u \in ADMINS_ID THEN "stats" ELSE "ignored")
    /\ UNCHANGED <<users, posts, post_seq, comments, session, tasks,
                   modgroup, channel, inbox>>

(* A message no handler's filters match is dropped by the dispatcher: a    *)
(* photo outside waiting_for_image, /cancel or plain text outside the two  *)
(* text states.                                                            *)
unhandled_message(u, text) ==
    /\ \/ text = "photo" /\ session[u].state # waiting_for_image
       \/ /\ text \in PlainTexts \cup {"/cancel"}
          /\ session[u].state \notin {waiting_for_text, waiting_for_comment}
    /\ Started("unhandled", u, NoId, <<text, NoId>>, "unhandled")
    /\ UNCHANGED <<users, posts, post_seq, comments, session, tasks,
                   modgroup, channel, inbox>>

----------------------------------------------------------------------------
(* The store called directly: src/database.py Database *)

(* A store call as the last step: the caller and the post are recorded    *)
(* for delete_post and get_user_stats only.                                *)
StoreStep(h, u, p, out, wrote) ==
    Step(h, "start", u, p, <<"", NoId>>, out, wrote, "unchecked", "none")

StoreUnchanged == UNCHANGED <<users, session, tasks, modgroup, channel, inbox>>

(* db.add_post(u, "hello"): the next AUTOINCREMENT id, or None. *)
call_add_post(u) ==
    /\ post_seq < MaxStorePosts
    /\ \E db_ok \in BOOLEAN :
          IF db_ok
          THEN /\ posts' = add_post(posts, post_seq + 1, u, "hello", NULL)
               /\ post_seq' = post_seq + 1
               /\ ev' = StoreStep("add_post", 0, NoId, "id", TRUE)
          ELSE /\ UNCHANGED <<posts, post_seq>>
               /\ ev' = StoreStep("add_post", 0, NoId, "None", FALSE)
    /\ UNCHANGED comments
    /\ StoreUnchanged

(* db.update_post_status(p, status) *)
call_update_post_status(p, status) ==
    /\ p \in DOMAIN posts
    /\ \E db_ok \in BOOLEAN :
          /\ posts' = update_post_status(posts, p, status, NoId, db_ok)
          /\ ev' = StoreStep("update_post_status", 0, NoId,
                             IF db_ok THEN "True" ELSE "False", db_ok)
    /\ UNCHANGED <<post_seq, comments>>
    /\ StoreUnchanged

(* db.add_comment(p, u, "hello") in the second created_at *)
call_add_comment(p, u, created_at) ==
    /\ Len(comments) < MaxStoreComments
    /\ \E db_ok \in BOOLEAN :
          /\ comments' = add_comment(comments, p, u, "hello", created_at, db_ok)
          /\ ev' = StoreStep("add_comment", 0, NoId,
                             IF db_ok THEN "id" ELSE "None", db_ok)
    /\ UNCHANGED <<posts, post_seq>>
    /\ StoreUnchanged

(* db.delete_post(p): both DELETEs run in one connection, committed when   *)
(* the with block ends.  fail is the statement that raises ("crash": the   *)
(* process dies between the two); what the first DELETE removed is rolled  *)
(* back.  The failing statement is recorded as the input of the step.      *)
call_delete_post(p) ==
    /\ \E fail \in {"none", "comments", "posts", "crash"} :
          LET deleted == delete_comments(comments, p)
          IN IF fail = "none"
             THEN /\ comments' = deleted
                  /\ posts' = delete_row(posts, p)
                  /\ ev' = StoreStep("delete_post", 0, p, "True",
                                     p \in DOMAIN posts /\ deleted # comments)
             ELSE /\ comments' = IF fail = "comments" THEN comments
                                  ELSE rollback(comments, deleted)
                  /\ UNCHANGED posts
                  /\ ev' = [StoreStep("delete_post", 0, p,
                                      IF fail = "crash" THEN "crashed"
                                      ELSE "False", FALSE)
                               EXCEPT !.inp = <<fail, NoId>>]
    /\ UNCHANGED post_seq
    /\ StoreUnchanged

(* db.cleanup_old_rejected_posts(days): the number of rows deleted; 0 when *)
(* the DELETE raises.                                                      *)
call_cleanup_old_rejected_posts(cutoff) ==
    /\ \E db_ok \in BOOLEAN :
          LET kept == IF db_ok THEN cleanup_old_rejected_posts(posts, cutoff)
                      ELSE posts
          IN /\ posts' = kept
             /\ ev' = StoreStep("cleanup_old_rejected_posts", 0, NoId,
                                IF kept # posts THEN "deleted" ELSE "0",
                                kept # posts)
    /\ UNCHANGED <<post_seq, comments>>
    /\ StoreUnchanged

(* db.get_comments(p) *)
call_get_comments(p) ==
    /\ \E db_ok \in BOOLEAN :
          ev' = StoreStep("get_comments", 0, p,
                          IF db_ok THEN "rows" ELSE "error", FALSE)
    /\ UNCHANGED <<posts, post_seq, comments>>
    /\ StoreUnchanged

(* db.get_user_stats(u) *)
call_get_user_stats(u) ==
    /\ \E db_ok \in BOOLEAN :
          ev' = StoreStep("get_user_stats", u, NoId,
                          IF db_ok THEN "stats" ELSE "error", FALSE)
    /\ UNCHANGED <<posts, post_seq, comments>>
    /\ StoreUnchanged

----------------------------------------------------------------------------
(* Specifications *)

(* The process after construction and create_tables: empty tables, no FSM  *)
(* record, nothing sent.                                                   *)
Init ==
    /\ users = {}
    /\ posts = <<>>
    /\ post_seq = 0
    /\ comments = <<>>
    /\ session = [u \in Users |-> IdleSession]
    /\ tasks = EmptyBag
    /\ modgroup = <<>>
    /\ channel = <<>>
    /\ inbox = [p \in PostIds |-> {}]
    /\ ev = NoStep

(* The moderation workflow of one post starts where the dialogue delivers *)
(* it (DeliveredPost is reached under Spec): the post pending, with or     *)
(* without an image, its moderation message in the moderator group.        *)
InitModeration ==
    /\ users = {NUsers}
    /\ \E image_file_id \in {NULL, "img"} :
          /\ posts = add_post(<<>>, 1, NUsers, "hello", image_file_id)
          /\ modgroup = <<ModMessage(1, image_file_id)>>
    /\ post_seq = 1
    /\ comments = <<>>
    /\ session = [u \in Users |-> IdleSession]
    /\ tasks = EmptyBag
    /\ channel = <<>>
    /\ inbox = [p \in PostIds |-> {}]
    /\ ev = NoStep

ModerationNext ==
    \/ \E m \in Users, k \in DOMAIN modgroup : approve_post_handler(m, k)
    \/ \E r \in Suspended : approve_get_me(r)
    \/ \E r \in Suspended : approve_publish(r)
    \/ \E r \in Suspended : approve_notify(r)
    \/ \E r \in Suspended : approve_edit(r)
    \/ \E m \in Users, k \in DOMAIN modgroup : reject_post_handler(m, k)
    \/ \E r \in Suspended : reject_notify(r)
    \/ \E r \in Suspended : reject_edit(r)

SpecModeration == InitModeration /\ [][ModerationNext]_vars

(* A text that creates a post is delivered while fewer than MaxPosts       *)
(* submissions were made.                                                  *)
Accepts(text) == is_command(text) \/ Submissions < MaxPosts

(* The dialogue is driven by one ordinary user, and an update is delivered *)
(* to a handler while fewer than MaxDialogues handlers are suspended; the  *)
(* administrators take part through /stats.                                *)
Dialoguers == {NUsers}

Deliver == BagCardinality(tasks) < MaxDialogues

Next ==
    \/ \E u \in Dialoguers, link \in StartLinks, p \in PostIds \cup {NoId} :
          Deliver /\ start_handler(u, link, p)
    \/ \E r \in Suspended : start_gate(r)
    \/ \E u \in Dialoguers : Deliver /\ create_post_handler(u)
    \/ \E r \in Suspended : create_post_gate(r)
    \/ \E r \in Suspended : create_post_prompt(r)
    \/ \E u \in Dialoguers : Deliver /\ skip_image_handler(u)
    \/ \E r \in Suspended : skip_image_prompt(r)
    \/ \E u \in Dialoguers : Deliver /\ receive_image_handler(u)
    \/ \E r \in Suspended : receive_image_prompt(r)
    \/ \E u \in Dialoguers, text \in PlainTexts \cup Commands :
          Deliver /\ Accepts(text) /\ receive_text_handler(u, text)
    \/ \E r \in Suspended : receive_text_moderation(r)
    \/ \E r \in Suspended : receive_text_answer(r)
    \/ \E r \in Suspended : receive_text_answer_error(r)
    \/ \E u \in Dialoguers, p \in PostIds : Deliver /\ add_comment_handler(u, p)
    \/ \E r \in Suspended : add_comment_gate(r)
    \/ \E r \in Suspended : add_comment_prompt(r)
    \/ \E u \in Dialoguers, p \in PostIds : Deliver /\ view_comments_handler(u, p)
    \/ \E r \in Suspended : view_comments_gate(r)
    \/ \E u \in Dialoguers, text \in PlainTexts \cup Commands :
          Deliver /\ receive_comment_handler(u, text)
    \/ \E r \in Suspended : receive_comment_answer(r)
    \/ \E u \in Dialoguers : Deliver /\ cancel_handler(u)
    \/ \E u \in Users : Deliver /\ admin_stats_handler(u)
    \/ \E u \in Dialoguers, text \in PlainTexts \cup {"/cancel", "photo"} :
          Deliver /\ unhandled_message(u, text)

Spec == Init /\ [][Next]_vars

(* The handlers that call check_channel_membership, started by the        *)
(* dialoguer while a post exists.                                          *)
MembershipNext ==
    \/ \E u \in Dialoguers, link \in StartLinks, p \in PostIds \cup {NoId} :
          Deliver /\ start_handler(u, link, p)
    \/ \E r \in Suspended : start_gate(r)
    \/ \E u \in Dialoguers : Deliver /\ create_post_handler(u)
    \/ \E r \in Suspended : create_post_gate(r)
    \/ \E r \in Suspended : create_post_prompt(r)
    \/ \E u \in Dialoguers, p \in PostIds : Deliver /\ add_comment_handler(u, p)
    \/ \E r \in Suspended : add_comment_gate(r)
    \/ \E r \in Suspended : add_comment_prompt(r)
    \/ \E u \in Dialoguers, p \in PostIds : Deliver /\ view_comments_handler(u, p)
    \/ \E r \in Suspended : view_comments_gate(r)

SpecMembership == InitModeration /\ [][MembershipNext]_vars

(* Submission and moderation together: the dialoguer skips the image and  *)
(* sends texts, the administrators press the buttons of the messages that      *)
(* reached the moderator group.                                            *)
SubmissionNext ==
    \/ \E u \in Dialoguers : Deliver /\ skip_image_handler(u)
    \/ \E r \in Suspended : skip_image_prompt(r)
    \/ \E u \in Dialoguers, text \in PlainTexts :
          Deliver /\ Accepts(text) /\ receive_text_handler(u, text)
    \/ \E r \in Suspended : receive_text_moderation(r)
    \/ \E r \in Suspended : receive_text_answer(r)
    \/ \E r \in Suspended : receive_text_answer_error(r)
    \/ \E m \in ADMINS_ID, k \in DOMAIN modgroup : approve_post_handler(m, k)
    \/ \E r \in Suspended : approve_get_me(r)
    \/ \E r \in Suspended : approve_publish(r)
    \/ \E r \in Suspended : approve_notify(r)
    \/ \E r \in Suspended : approve_edit(r)
    \/ \E m \in ADMINS_ID, k \in DOMAIN modgroup : reject_post_handler(m, k)
    \/ \E r \in Suspended : reject_notify(r)
    \/ \E r \in Suspended : reject_edit(r)

SpecSubmission == Init /\ [][SubmissionNext]_vars

(* The authors of the statistics: the dialoguer and an administrator. *)
Authors == Dialoguers \cup ADMINS_ID

(* Posts of two authors are stored and decided, post 1 is commented, the   *)
(* statistics are read.                                                    *)
StatsNext ==
    \/ \E u \in Authors : call_add_post(u)
    \/ \E p \in DOMAIN posts, status \in {"approved", "rejected"} :
          call_update_post_status(p, status)
    \/ \E u \in Authors : call_add_comment(1, u, SameSecond(comments))
    \/ \E u \in Authors : call_get_user_stats(u)

SpecStats == Init /\ [][StatsNext]_vars

(* Posts are stored, commented and deleted. *)
DeleteNext ==
    \/ \E u \in Dialoguers : call_add_post(u)
    \/ \E p \in 1..MaxStorePosts, u \in Dialoguers :
          call_add_comment(p, u, SameSecond(comments))
    \/ \E p \in 1..MaxStorePosts : call_delete_post(p)

SpecDelete == Init /\ [][DeleteNext]_vars

(* Posts are stored and rejected, stored posts are commented, posts are    *)
(* deleted and old rejected posts purged.                                  *)
CleanupNext ==
    \/ \E u \in Dialoguers : call_add_post(u)
    \/ \E p \in DOMAIN posts : call_update_post_status(p, "rejected")
    \/ \E p \in DOMAIN posts, u \in Dialoguers :
          call_add_comment(p, u, SameSecond(comments))
    \/ \E p \in DOMAIN posts : call_delete_post(p)
    \/ \E cutoff \in 1..MaxStorePosts : call_cleanup_old_rejected_posts(cutoff)

SpecCleanup == Init /\ [][CleanupNext]_vars

(* Comments of any user on any post, in the same second as the comment     *)
(* before or later, and the comments of a post read.                       *)
CommentsNext ==
    \/ \E p \in PostIds, u \in Users, created_at \in CURRENT_TIMESTAMP(comments) :
          call_add_comment(p, u, created_at)
    \/ \E p \in PostIds : call_get_comments(p)

SpecComments == Init /\ [][CommentsNext]_vars

(* The user u has no handler suspended: its updates arrive one at a time. *)
Free(u) == \A r \in Suspended : r.u # u

(* The dialogues of all users, the handlers of different users             *)
(* interleaved: the post dialogue with an image, comment deep links and    *)
(* comments.                                                               *)
TwoUsersNext ==
    \/ \E u \in Users : Free(u) /\ create_post_handler(u)
    \/ \E r \in Suspended : create_post_gate(r)
    \/ \E r \in Suspended : create_post_prompt(r)
    \/ \E u \in Users : Free(u) /\ receive_image_handler(u)
    \/ \E r \in Suspended : receive_image_prompt(r)
    \/ \E u \in Users :
          Free(u) /\ Accepts("hello") /\ receive_text_handler(u, "hello")
    \/ \E r \in Suspended : receive_text_moderation(r)
    \/ \E r \in Suspended : receive_text_answer(r)
    \/ \E r \in Suspended : receive_text_answer_error(r)
    \/ \E u \in Users, p \in PostIds :
          Free(u) /\ start_handler(u, "/start comment_post_", p)
    \/ \E u \in Users : Free(u) /\ receive_comment_handler(u, "hello")
    \/ \E r \in Suspended : receive_comment_answer(r)

SpecTwoUsers == Init /\ [][TwoUsersNext]_vars

(* One user's updates handled as concurrent tasks: the image is skipped,  *)
(* texts arrive while earlier texts are still being handled.               *)
SameUserNext ==
    \/ \E u \in Dialoguers : skip_image_handler(u)
    \/ \E r \in Suspended : skip_image_prompt(r)
    \/ \E u \in Dialoguers, text \in PlainTexts \cup Commands :
          /\ is_command(text) \/ Submissions < MaxSubmissions
          /\ receive_text_handler(u, text)
    \/ \E r \in Suspended : receive_text_moderation(r)
    \/ \E r \in Suspended : receive_text_answer(r)
    \/ \E r \in Suspended : receive_text_answer_error(r)

SpecSameUser == Init /\ [][SameUserNext]_vars

(* One user's comment requests, by deep link on any target and by the      *)
(* button of the stored post, handled as concurrent tasks among the steps  *)
(* of a post dialogue that is abandoned: the comment, the cancel button.   *)
CommentDialogueNext ==
    \/ \E u \in Dialoguers, p \in Targets :
          start_handler(u, "/start comment_post_", p)
    \/ \E u \in Dialoguers, p \in PostIds : add_comment_handler(u, p)
    \/ \E r \in Suspended : add_comment_gate(r)
    \/ \E r \in Suspended : add_comment_prompt(r)
    \/ \E u \in Dialoguers : create_post_handler(u)
    \/ \E r \in Suspended : create_post_gate(r)
    \/ \E r \in Suspended : create_post_prompt(r)
    \/ \E u \in Dialoguers : receive_image_handler(u)
    \/ \E r \in Suspended : receive_image_prompt(r)
    \/ \E u \in Dialoguers : skip_image_handler(u)
    \/ \E r \in Suspended : skip_image_prompt(r)
    \/ \E u \in Dialoguers, text \in PlainTexts \cup Commands :
          receive_comment_handler(u, text)
    \/ \E r \in Suspended : receive_comment_answer(r)
    \/ \E u \in Dialoguers : cancel_handler(u)

SpecCommentDialogue == InitModeration /\ [][CommentDialogueNext]_vars

----------------------------------------------------------------------------
(* Properties of the moderation workflow, checked under SpecModeration *)

IsPublished(p) == \E i \in DOMAIN channel : channel[i] = p

Ended(step) == step.out \notin {"none", "suspended"}

Moderating(step) == step.h \in {"approve", "reject"}

(* C1: for every post, under every interleaving of approve and reject      *)
(* invocations, a status that is approved or rejected never changes again. *)
C1_StatusTerminal ==
    [][\A p \in DOMAIN posts :
          posts[p].status # "pending" => posts'[p].status = posts[p].status]_vars

(* C2: approval is exactly-once: whatever approve invocations run on a     *)
(* post, completed or still suspended, the post is published to the        *)
(* channel at most once.                                                   *)
C2_PublishedOnce ==
    \A p \in PostIds : Cardinality({i \in DOMAIN channel : channel[i] = p}) <= 1

(* C3: an approve or reject dispatched for an administrator on a post      *)
(* whose stored status is not pending ends in that step as "already        *)
(* processed" (as "not found" when the read of the post fails) and changes *)
(* nothing: post rows, channel, author notifications, moderation messages. *)
C3_NonPendingNoEffect ==
    [][(/\ Moderating(ev') /\ ev'.pc = "start" /\ ev'.u \in ADMINS_ID
        /\ ev'.p \in DOMAIN posts /\ posts[ev'.p].status # "pending")
       => /\ ev'.out \in {"already_processed", "not_found"}
          /\ UNCHANGED <<posts, channel, inbox, modgroup, tasks>>]_vars

(* C3 witness: an administrator's approve of a processed post was refused. *)
C3_Witness ==
    /\ ev.h = "approve" /\ ev.u \in ADMINS_ID /\ ev.out = "already_processed"
    /\ ev.p \in DOMAIN posts /\ posts[ev.p].status # "pending"

(* C4: no step of an approve or reject invoked by a user outside the       *)
(* administrator set changes a post row, publishes, notifies the author or *)
(* edits a moderation message; such an invocation ends where it starts.    *)
C4_NonAdminNoEffect ==
    [][/\ \A r \in BagToSet(tasks') : Moderating(r) => r.u \in ADMINS_ID
       /\ (Moderating(ev') /\ ev'.u \notin ADMINS_ID)
          => /\ ev'.out = "no_permission"
             /\ UNCHANGED <<posts, channel, inbox, modgroup, tasks>>]_vars

(* C4 witness: a non-administrator pressed reject on a pending post. *)
C4_Witness ==
    /\ ev.h = "reject" /\ ev.u \notin ADMINS_ID /\ ev.out = "no_permission"
    /\ ev.p \in DOMAIN posts /\ posts[ev.p].status = "pending"

(* C7: for a post on which no approve invocation is in flight, the post   *)
(* is not published while stored as pending, nor stored as approved        *)
(* without having been published.                                          *)
C7_ApproveAtomic ==
    \A p \in DOMAIN posts :
       (\A r \in BagToSet(tasks) : ~(r.h = "approve" /\ r.p = p))
       => /\ ~(IsPublished(p) /\ posts[p].status = "pending")
          /\ ~(posts[p].status = "approved" /\ ~IsPublished(p))

(* C8: once approve or reject has written the new status, the invocation   *)
(* neither raises out of the handler nor shows the moderator a failure,    *)
(* whatever happens to the author notification and the message edit.       *)
C8_BestEffort ==
    (Moderating(ev) /\ ev.wrote) => ev.out \in {"suspended", "approved", "rejected"}

(* C27: no step changes the status of a post from approved to rejected    *)
(* (or to anything else), whatever approve and reject invocations are      *)
(* suspended.                                                              *)
C27_ApprovedTerminal ==
    [][\A p \in DOMAIN posts :
          posts[p].status = "approved" => posts'[p].status = "approved"]_vars

(* C27 witness: an administrator's reject of an approved post was refused  *)
(* while the approve that wrote the status was still suspended.            *)
C27_Witness ==
    /\ ev.h = "reject" /\ ev.u \in ADMINS_ID /\ ev.out = "already_processed"
    /\ posts[ev.p].status = "approved"
    /\ \E r \in Suspended : r.h = "approve" /\ r.p = ev.p /\ r.wrote

(* C28: the author of a post is never sent both an approved and a         *)
(* rejected notification for that post.                                    *)
C28_OneOutcomeNotified ==
    \A p \in DOMAIN inbox : ~({"approved", "rejected"} \subseteq inbox[p])

(* C23: what get_post, get_comments, get_comment_count and get_user_stats  *)
(* return when the query raises differs from what they return when the     *)
(* query succeeds and matches no row; an administrator's approve or reject *)
(* of a post that exists is never answered "not found".                    *)
C23_FailureDistinct ==
    /\ \A p \in 1..MaxStorePosts :
          /\ p \notin DOMAIN posts => get_post(p, FALSE) # get_post(p, TRUE)
          /\ get_comments(p, TRUE) = {<<>>}
             => /\ get_comments(p, FALSE) # get_comments(p, TRUE)
                /\ get_comment_count(p, FALSE) # get_comment_count(p, TRUE)
    /\ \A u \in Users :
          get_user_stats(u, TRUE) = ZeroStats
          => get_user_stats(u, FALSE) # get_user_stats(u, TRUE)
    /\ (Moderating(ev) /\ ev.pc = "start" /\ ev.u \in ADMINS_ID
        /\ ev.p \in DOMAIN posts)
       => ev.out # "not_found"

----------------------------------------------------------------------------
(* Properties of the dialogue, checked under Spec; C6 under SpecMembership *)

(* C5: a session enters waiting_for_image, waiting_for_text or             *)
(* waiting_for_comment, and the comments of a post are shown, only in a    *)
(* step of a handler of that user whose membership check returned true.    *)
C5_GateBeforeEntry ==
    [][/\ \A u \in Users :
            (session'[u].state # session[u].state /\ session'[u].state # NULL)
            => (ev'.u = u /\ ev'.gate = "passed")
       /\ (ev'.out = "shown" => ev'.gate = "passed")]_vars

(* C6: every membership check ends with a boolean, and that boolean is     *)
(* true exactly when get_chat_member returned the status member,           *)
(* administrator or creator; when the query raises, it is false.           *)
C6_GateTotal ==
    ev.q # "none"
    => /\ ev.gate \in {"passed", "denied"}
       /\ (ev.gate = "passed") <=> (ev.q \in {"member", "administrator", "creator"})

(* C6 witness: a membership query raised and the handler was denied. *)
C6_Witness == ev.q = "error" /\ ev.gate = "denied" /\ ev.out \in {"invite", "not_member"}

(* C9: the text /cancel received in waiting_for_image or waiting_for_text  *)
(* returns the session to idle, with the image discarded, and creates no   *)
(* post.                                                                   *)
C9_CancelToIdle ==
    [][(/\ ev'.inp = <<"/cancel", NoId>>
        /\ ev'.u \in Users
        /\ session[ev'.u].state \in {waiting_for_image, waiting_for_text})
       => (session'[ev'.u] = IdleSession /\ posts' = posts)]_vars

(* C10: a text beginning with "/" received in waiting_for_text or          *)
(* waiting_for_comment creates no post and no comment and leaves the       *)
(* session of its sender as it was.                                        *)
C10_CommandIgnored ==
    [][(/\ ev'.pc = "start"
        /\ ev'.inp[1] \in Commands \cup StartLinks
        /\ ev'.u \in Users
        /\ session[ev'.u].state \in {waiting_for_text, waiting_for_comment})
       => (posts' = posts /\ comments' = comments /\ session' = session)]_vars

(* C11: every change of a user's FSM state is a transition of the table:  *)
(* waiting_for_image from idle by create_post; waiting_for_text from       *)
(* waiting_for_image by an image or skip_image; waiting_for_comment from   *)
(* idle by a comment request; idle from a text state by a plain text, or   *)
(* from any state by cancel.                                               *)
C11_SpecifiedTransitions ==
    [][\A u \in Users :
          LET old == session[u].state
              new == session'[u].state
          IN new # old
             => \/ /\ new = waiting_for_image /\ old = NULL
                   /\ ev'.h = "create_post"
                \/ /\ new = waiting_for_text /\ old = waiting_for_image
                   /\ ev'.h \in {"receive_image", "skip_image"}
                \/ /\ new = waiting_for_comment /\ old = NULL
                   /\ ev'.h \in {"add_comment", "start"}
                \/ /\ new = NULL /\ old = waiting_for_text
                   /\ ev'.h = "receive_text"
                \/ /\ new = NULL /\ old = waiting_for_comment
                   /\ ev'.h = "receive_comment"
                \/ new = NULL /\ ev'.h = "cancel"]_vars

(* C12: a plain text received in waiting_for_text creates exactly one     *)
(* post, pending, with that text, its sender as author and the image held  *)
(* in the session; when the handler ends, nothing more was created and the *)
(* session of the sender is idle with its data cleared.                    *)
C12_TextCreatesPost ==
    [][/\ (ev'.h = "receive_text" /\ ev'.pc = "start" /\ ~is_command(ev'.inp[1]))
          => /\ DOMAIN posts' = DOMAIN posts \cup {ev'.p}
             /\ ev'.p \notin DOMAIN posts
             /\ posts'[ev'.p] =
                   [post_id |-> ev'.p, user_id |-> ev'.u, text |-> ev'.inp[1],
                    image_file_id |-> session[ev'.u].image_file_id,
                    status |-> "pending", channel_message_id |-> NoId]
       /\ (ev'.h = "receive_text" /\ ev'.pc # "start" /\ Ended(ev'))
          => (posts' = posts /\ session'[ev'.u] = IdleSession)]_vars

SameContent(a, b) ==
    a.text = b.text /\ a.image_file_id = b.image_file_id /\ a.user_id = b.user_id

(* C13: the step in which an approve publishes leaves the post approved    *)
(* with a published-message reference; the step in which a reject passes   *)
(* its checks leaves the post rejected with no reference and not           *)
(* published; both leave text, image and author as they were.              *)
C13_ModerationRoundTrip ==
    [][/\ (ev'.h = "approve" /\ ev'.pc = "publish" /\ ev'.out = "suspended")
          => /\ posts'[ev'.p].status = "approved"
             /\ posts'[ev'.p].channel_message_id # NoId
             /\ SameContent(posts'[ev'.p], posts[ev'.p])
       /\ (ev'.h = "reject" /\ ev'.pc = "start" /\ ev'.out = "suspended")
          => /\ posts'[ev'.p].status = "rejected"
             /\ posts'[ev'.p].channel_message_id = NoId
             /\ \A i \in DOMAIN channel' : channel'[i] # ev'.p
             /\ SameContent(posts'[ev'.p], posts[ev'.p])]_vars

(* C14: in every state, a post with a published-message reference is       *)
(* approved.                                                               *)
C14_ReferenceOnlyApproved ==
    \A p \in DOMAIN posts :
       posts[p].channel_message_id # NoId => posts[p].status = "approved"

(* C14 witness: a post that was rejected while an approve was in flight    *)
(* carries a reference: its author was told of both decisions.             *)
C14_Witness ==
    \E p \in DOMAIN posts :
       /\ posts[p].channel_message_id # NoId
       /\ {"approved", "rejected"} \subseteq inbox[p]

(* C15: a moderation message is sent for a post only while the post is    *)
(* pending, and only when no moderation message for that post exists.      *)
C15_SubmittedWhilePending ==
    [][Len(modgroup') > Len(modgroup)
       => LET p == modgroup'[Len(modgroup')].post_id
          IN p # NoId
             => /\ posts[p].status = "pending"
                /\ \A k \in DOMAIN modgroup : modgroup[k].post_id # p]_vars

(* C15 witness: a submitted post has been decided and its submitting       *)
(* handler has ended.                                                      *)
C15_Witness ==
    /\ \E k \in DOMAIN modgroup :
          /\ modgroup[k].post_id # NoId
          /\ posts[modgroup[k].post_id].status # "pending"
    /\ ev.h = "receive_text" /\ ev.out \in {"submitted", "submit_error"}

(* C16: a text of whitespace only received in waiting_for_comment creates *)
(* no comment.                                                             *)
C16_BlankCommentRejected ==
    [][(ev'.h = "receive_comment" /\ ev'.pc = "start" /\ ev'.inp[1] = " ")
       => comments' = comments]_vars

(* C17: a session enters waiting_for_comment only for a target post that   *)
(* exists, and a comment is created only for a post that exists.           *)
C17_CommentTargetExists ==
    [][/\ \A u \in Users :
            (session'[u].state = waiting_for_comment
             /\ session[u].state # waiting_for_comment)
            => session'[u].post_id \in DOMAIN posts
       /\ Len(comments') > Len(comments)
          => comments'[Len(comments')].post_id \in DOMAIN posts]_vars

(* C22: a plain text, a command or a /start with a deep-link parameter     *)
(* received in waiting_for_image leaves the session of its sender as it    *)
(* was; a session leaves waiting_for_image only in a step of               *)
(* receive_image_handler, skip_image_handler or cancel_handler.            *)
C22_ImageStateKept ==
    [][\A u \in Users :
          session[u].state = waiting_for_image
          => /\ (/\ ev'.u = u /\ ev'.pc = "start"
                 /\ ev'.inp[1] \in PlainTexts \cup Commands \cup StartLinks)
                => session'[u] = session[u]
             /\ session'[u].state # waiting_for_image
                => ev'.h \in {"receive_image", "skip_image", "cancel"}]_vars

(* C30: every pending post whose submitting handler has ended has a       *)
(* moderation message in the moderator group.                              *)
C30_PendingHasModMessage ==
    \A p \in DOMAIN posts :
       (/\ posts[p].status = "pending"
        /\ \A r \in Suspended : ~(r.h = "receive_text" /\ r.p = p))
       => \E k \in DOMAIN modgroup : modgroup[k].post_id = p

(* C31: a moderation message is sent only for a post that is stored, and  *)
(* the user is told the submission succeeded only for a post that is       *)
(* stored.                                                                 *)
C31_ModMessageForStoredPost ==
    [][/\ Len(modgroup') > Len(modgroup)
          => modgroup'[Len(modgroup')].post_id \in DOMAIN posts
       /\ (ev'.h = "receive_text" /\ ev'.out = "submitted")
          => ev'.p \in DOMAIN posts]_vars

(* The step records a comment request of user u: the deep link, or the     *)
(* button once its prompt was sent.                                        *)
Requested(step, u) ==
    /\ step.u = u
    /\ step.out = "prompted"
    /\ \/ step.h = "start" /\ step.inp[1] = "/start comment_post_"
       \/ step.h = "add_comment"

TargetOf(s, u) == <<s[u].state = waiting_for_comment, s[u].post_id>>

(* C32: a session in waiting_for_comment holds a target post id, which is  *)
(* the one recorded by the user's latest comment request (only a request   *)
(* of that user puts the session in waiting_for_comment or changes its     *)
(* target, and it records the post id it carries), and a created comment   *)
(* has the post id held by its author's session.                           *)
C32_CommentOnRecordedTarget ==
    [][/\ \A u \in Users :
             /\ session'[u].state = waiting_for_comment
                => session'[u].post_id # NoId
             /\ Requested(ev', u)
                => /\ session'[u].state = waiting_for_comment
                   /\ session'[u].post_id = ev'.p
             /\ (/\ session'[u].state = waiting_for_comment
                 /\ TargetOf(session', u) # TargetOf(session, u))
                => Requested(ev', u)
       /\ Len(comments') > Len(comments)
          => /\ ev'.h = "receive_comment"
             /\ session[ev'.u].state = waiting_for_comment
             /\ comments'[Len(comments')].post_id = session[ev'.u].post_id
             /\ comments'[Len(comments')].user_id = ev'.u]_vars

(* A comment is created on the target requested after a post dialogue was  *)
(* abandoned with its image in the session, while another comment request  *)
(* of the user is still in flight.                                         *)
C32_Witness ==
    /\ ev.h = "receive_comment" /\ ev.out = "suspended"
    /\ comments # <<>>
    /\ comments[Len(comments)].post_id = ev.p
    /\ ev.p = MaxTargets
    /\ session[ev.u].image_file_id = "img"
    /\ \E r \in Suspended : r.h = "add_comment" /\ r.u = ev.u /\ r.p # ev.p

(* C24: in every state the author of every stored post and of every       *)
(* stored comment has a row in the users table.                            *)
C24_AuthorsAreUsers ==
    /\ \A p \in DOMAIN posts : posts[p].user_id \in users
    /\ \A i \in DOMAIN comments : comments[i].user_id \in users

----------------------------------------------------------------------------
(* Properties of the store, checked under SpecDelete and SpecStats *)

OtherComments(tbl, p) == SelectSeq(tbl, LAMBDA c : c.post_id # p)

(* C18: after delete_post(p) returned True, post p does not exist, no      *)
(* comment of post p remains, and every other post and every comment of    *)
(* another post is as it was.                                              *)
C18_DeleteCascades ==
    [][(ev'.h = "delete_post" /\ ev'.out = "True")
       => LET p == ev'.p
          IN /\ p \notin DOMAIN posts'
             /\ \A i \in DOMAIN comments' : comments'[i].post_id # p
             /\ DOMAIN posts' = DOMAIN posts \ {p}
             /\ \A q \in DOMAIN posts' : posts'[q] = posts[q]
             /\ OtherComments(comments', p) = OtherComments(comments, p)]_vars

(* C18 witness: a post with comments was deleted, and another post and a   *)
(* comment of another post remain.                                         *)
C18_Witness ==
    /\ ev.h = "delete_post" /\ ev.out = "True" /\ ev.wrote
    /\ posts # <<>> /\ comments # <<>>

HasComments(p) == \E i \in DOMAIN comments : comments[i].post_id = p

(* C25 as stated: the two DELETEs are committed separately, so a call of   *)
(* delete_post(p) that fails or dies after the first has removed the       *)
(* comments of p and kept the post.                                        *)
C25_DeleteNotAtomic ==
    [][(ev'.h = "delete_post" /\ ev'.inp[1] \in {"posts", "crash"})
       => /\ comments' = delete_comments(comments, ev'.p)
          /\ posts' = posts]_vars

(* C25: delete_post is atomic: a call that returns True has removed the    *)
(* post and its comments; a call that fails at either statement, or dies   *)
(* between them, leaves posts and comments as they were.                   *)
C25_DeleteAtomic ==
    [][ev'.h = "delete_post"
       => IF ev'.out = "True"
          THEN /\ ev'.p \notin DOMAIN posts'
               /\ comments' = delete_comments(comments, ev'.p)
          ELSE posts' = posts /\ comments' = comments]_vars

(* C25 witness: delete_post failed after its first DELETE on a post with   *)
(* comments, and the post and its comments are stored.                     *)
C25_Witness ==
    /\ ev.h = "delete_post" /\ ev.inp[1] \in {"posts", "crash"}
    /\ ev.p \in DOMAIN posts /\ HasComments(ev.p)

(* C29: in every state, every stored comment is a comment of a stored     *)
(* post.                                                                   *)
C29_NoOrphanComments ==
    \A i \in DOMAIN comments : comments[i].post_id \in DOMAIN posts

(* C26: every list a successful get_comments(p) can return is the         *)
(* comments of post p in the order of their creation.                      *)
C26_CommentsInCreationOrder ==
    (ev.h = "get_comments" /\ ev.out = "rows")
    => get_comments(ev.p, TRUE) = {rows_of(comments, ev.p)}

(* The counts of a user's rows, taken over the tables. *)
Counts(u) ==
    LET mine(status) ==
           Cardinality({p \in DOMAIN posts :
                           posts[p].user_id = u /\ posts[p].status = status})
    IN [total_posts |->
           Cardinality({p \in DOMAIN posts : posts[p].user_id = u}),
        approved_posts |-> mine("approved"),
        rejected_posts |-> mine("rejected"),
        pending_posts |-> mine("pending"),
        total_comments |->
           Cardinality({i \in DOMAIN comments : comments[i].user_id = u})]

(* What the last call of get_user_stats returned. *)
ReturnedStats == get_user_stats(ev.u, ev.out = "stats")

ExampleStats ==
    [total_posts |-> 4, approved_posts |-> 2, rejected_posts |-> 1,
     pending_posts |-> 1, total_comments |-> 3]

----------------------------------------------------------------------------
(* Properties of concurrent dialogues, checked under SpecTwoUsers *)

(* C20: a step of a handler of one user leaves the session of every other  *)
(* user as it was; a post is created with the image held in its author's   *)
(* session, a comment with the target post held in its author's session.   *)
C20_SessionsIsolated ==
    [][/\ \A b \in Users : b # ev'.u => session'[b] = session[b]
       /\ \A p \in DOMAIN posts' \ DOMAIN posts :
             /\ posts'[p].user_id = ev'.u
             /\ posts'[p].image_file_id = session[ev'.u].image_file_id
       /\ Len(comments') > Len(comments)
          => /\ comments'[Len(comments')].user_id = ev'.u
             /\ comments'[Len(comments')].post_id = session[ev'.u].post_id]_vars

(* C20 witness: a user's handler ended and cleared its session while       *)
(* another user was in a dialogue holding an image.                        *)
C20_Witness ==
    /\ ev.h \in {"receive_text", "receive_comment"}
    /\ ev.out \in {"submitted", "submit_error", "commented"}
    /\ session[ev.u] = IdleSession
    /\ \E b \in Users \ {ev.u} :
          /\ session[b].state = waiting_for_text
          /\ session[b].image_file_id # NULL

----------------------------------------------------------------------------
(* Properties of one user's concurrent updates, checked under SpecSameUser *)

(* C21: a plain text received while the session is waiting_for_text is    *)
(* accepted whatever handlers of the same user are suspended: the step     *)
(* stores a new post (unless the store fails), suspends on the send to the *)
(* moderator group, and leaves the session in waiting_for_text.            *)
C21_AcceptedUntilCleared ==
    [][(ev'.h = "receive_text" /\ ev'.pc = "start" /\ ev'.inp[1] \in PlainTexts)
       => /\ ev'.out = "suspended"
          /\ session[ev'.u].state = waiting_for_text
          /\ session' = session
          /\ ev'.p # NoId
             => (ev'.p \notin DOMAIN posts /\ ev'.p \in DOMAIN posts')]_vars

(* C21 witness: two receive_text handlers of one user are suspended before *)
(* either cleared the session; each stored a post of that user and each    *)
(* sent a moderation message.                                              *)
C21_Witness ==
    \E r1, r2 \in Suspended :
       /\ r1.h = "receive_text" /\ r2.h = "receive_text"
       /\ r1.pc = "answer" /\ r2.pc = "answer"
       /\ r1.u = r2.u /\ r1.p # r2.p
       /\ session[r1.u].state = waiting_for_text
       /\ \A r \in {r1, r2} :
             /\ r.p \in DOMAIN posts /\ posts[r.p].user_id = r.u
             /\ \E k \in DOMAIN modgroup : modgroup[k].post_id = r.p

====
